---- MODULE Spec2Model ----
(***************************************************************************)
(* Construction Portfolio Dashboard (src/app.py).                          *)
(*                                                                         *)
(* The script is re-executed from top to bottom on every user interaction  *)
(* (a column-mapping selectbox, a sidebar filter, a join-key selectbox,    *)
(* the project selectbox).  The state is the two loaded tables, the state  *)
(* of every input widget and the tables the last execution computed.       *)
(* Every action is one interaction followed by the whole script.           *)
(*                                                                         *)
(* pandas semantics assumed (pandas 1.x / 2.x, the versions the script's   *)
(* idioms target): astype(str) and str() render a missing value as "nan";  *)
(* comparisons with a missing operand are False; read_csv infers one dtype *)
(* per column (int64, float64 when a number column has holes, object).     *)
(***************************************************************************)
EXTENDS Integers, Sequences, FiniteSets, TLC

\* -------------------------------------------------------------------------
\* Cells.  One record shape for every cell so that any two cells compare.
\* -------------------------------------------------------------------------
None == "<None>"                                  \* Python None (no column)

NA == [t |-> "na", n |-> 0, s |-> ""]             \* NaN / NaT / empty cell
IntCell(k) == [t |-> "int", n |-> k, s |-> ""]    \* int64 value
FloatCell(k) == [t |-> "float", n |-> k, s |-> ""]  \* float64, integral value k.0
StrCell(x) == [t |-> "str", n |-> 0, s |-> x]     \* object (text) value
DateCell(d) == [t |-> "date", n |-> d, s |-> ""]  \* datetime64, day number d
BoolCell(b) == [t |-> "bool", n |-> IF b THEN 1 ELSE 0, s |-> ""]

isna(c) == c.t = "na"
IsNum(c) == c.t \in {"int", "float"}

\* The numeric tokens a CSV cell of the modelled files can hold, as parsed by
\* read_csv / pd.to_numeric.
NumOf ==
    "7" :> 7 @@ "8" :> 8 @@ "10" :> 10 @@ "11" :> 11 @@ "12" :> 12
    @@ "500" :> 500 @@ "1000" :> 1000 @@ "1200" :> 1200

\* The date tokens, as parsed by pd.to_datetime: the day of January 2024.
DateOf ==
    "2024-01-01" :> 1 @@ "2024-01-12" :> 12 @@ "2024-01-13" :> 13
    @@ "2024-01-20" :> 20

\* str() of an int64 (the inverse of NumOf on the modelled numbers).
IntStr(k) == CHOOSE x \in DOMAIN NumOf : NumOf[x] = k

\* str() of an integral float64: the digits followed by ".0".
FloatStr(k) == IntStr(k) \o ".0"

\* str() of a datetime64 day of January 2024.
DateStr(d) == CHOOSE x \in DOMAIN DateOf : DateOf[x] = d

\* Series.astype(str) per cell, and str(scalar): a missing value becomes the
\* three letters "nan".
Str(c) ==
    CASE c.t = "na" -> "nan"
      [] c.t = "int" -> IntStr(c.n)
      [] c.t = "float" -> FloatStr(c.n)
      [] c.t = "date" -> DateStr(c.n)
      [] c.t = "bool" -> IF c.n = 1 THEN "True" ELSE "False"
      [] OTHER -> c.s

\* pd.to_numeric(errors="coerce") per cell.
to_numeric(c) ==
    CASE c.t = "str" -> IF c.s \in DOMAIN NumOf THEN FloatCell(NumOf[c.s]) ELSE NA
      [] c.t \in {"int", "float"} -> c
      [] c.t = "bool" -> IntCell(c.n)
      [] OTHER -> NA

\* pd.to_datetime(errors="coerce") per cell.  Numbers are nanoseconds since
\* the epoch in pandas; no modelled interaction maps a date role to a number
\* column, so they are left out (missing).
to_datetime(c) ==
    CASE c.t = "str" -> IF c.s \in DOMAIN DateOf THEN DateCell(DateOf[c.s]) ELSE NA
      [] c.t = "date" -> c
      [] OTHER -> NA

\* -------------------------------------------------------------------------
\* Data frames: the ordered column names and the rows in order; every row
\* carries its pandas index label idx and its cells v[column].
\* -------------------------------------------------------------------------
Frame(cols, rows) == [cols |-> cols, rows |-> rows]
EmptyFrame == Frame(<<>>, <<>>)

Columns(df) == {df.cols[i] : i \in DOMAIN df.cols}
HasCol(df, c) == c \in Columns(df)

\* df[name] = series (series: position -> cell); a new name is appended.
\* (... \o <<>> only makes TLC hold the rows as an evaluated sequence.)
SetCol(df, name, series) ==
    Frame(IF HasCol(df, name) THEN df.cols ELSE Append(df.cols, name),
          [i \in DOMAIN df.rows |->
              [idx |-> df.rows[i].idx,
               v |-> (name :> series[i]) @@ df.rows[i].v]] \o <<>>)

\* df[name] as a series.
Series(df, name) == [i \in DOMAIN df.rows |-> df.rows[i].v[name]]

\* df[mask]: the rows at the positions in keep, in their original order.
RECURSIVE SelectRows(_, _, _)
SelectRows(rows, keep, i) ==
    IF i > Len(rows) THEN <<>>
    ELSE (IF i \in keep THEN <<rows[i]>> ELSE <<>>) \o SelectRows(rows, keep, i + 1)

Mask(df, keep) == Frame(df.cols, SelectRows(df.rows, keep, 1))

\* pd.read_csv: raw is the header and the text of every cell ("" = empty).
\* A column whose non-empty cells are all numbers is int64 when it has no
\* empty cell and float64 otherwise; any other column is object with NaN
\* for its empty cells.
read_csv(raw) ==
    LET cs == {raw.cols[i] : i \in DOMAIN raw.cols}
        numeric(c) == \A i \in DOMAIN raw.rows :
                          raw.rows[i][c] = "" \/ raw.rows[i][c] \in DOMAIN NumOf
        holes(c) == \E i \in DOMAIN raw.rows : raw.rows[i][c] = ""
        cell(c, x) ==
            IF x = "" THEN NA
            ELSE IF numeric(c)
                 THEN (IF holes(c) THEN FloatCell(NumOf[x]) ELSE IntCell(NumOf[x]))
                 ELSE StrCell(x)
    IN  Frame(raw.cols,
              [i \in DOMAIN raw.rows |->
                  [idx |-> i - 1, v |-> [c \in cs |-> cell(c, raw.rows[i][c])]]])

\* -------------------------------------------------------------------------
\* Column resolution
\* -------------------------------------------------------------------------
\* str.lower() on the names of the candidate lists and of the modelled files;
\* a name that is not listed has no upper-case letter.
LowerTab ==
    "ProjectName" :> "projectname" @@ "Name" :> "name" @@ "Title" :> "title"
    @@ "Project" :> "project" @@ "Status" :> "status" @@ "Report Forms Status" :> "report forms status"
    @@ "Report Status" :> "report status" @@ "Owner" :> "owner" @@ "Department" :> "department"
    @@ "Group" :> "group" @@ "Report Forms Group" :> "report forms group" @@ "Report Group" :> "report group"
    @@ "Priority" :> "priority" @@ "Risk" :> "risk" @@ "Severity" :> "severity"
    @@ "Budget" :> "budget" @@ "Cost Budget" :> "cost budget" @@ "Planned Cost" :> "planned cost"
    @@ "Total Budget" :> "total budget" @@ "Spent" :> "spent" @@ "Actual Cost" :> "actual cost"
    @@ "Actuals" :> "actuals" @@ "Cost Spent" :> "cost spent" @@ "Expenditure" :> "expenditure"
    @@ "ProjectID" :> "projectid" @@ "Ref" :> "ref" @@ "ID" :> "id"
    @@ "Project Ref" :> "project ref" @@ "TaskID" :> "taskid" @@ "TaskName" :> "taskname"
    @@ "Description" :> "description" @@ "Activity" :> "activity" @@ "Parent Ref" :> "parent ref"
    @@ "Parent" :> "parent" @@ "Completion" :> "completion" @@ "% Complete" :> "% complete"
    @@ "Percent Complete" :> "percent complete" @@ "Progress" :> "progress" @@ "StartDate" :> "startdate"
    @@ "Start" :> "start" @@ "Begin" :> "begin" @@ "EndDate" :> "enddate"
    @@ "End" :> "end" @@ "Finish" :> "finish" @@ "KPI_Progress" :> "kpi_progress"
    @@ "PROJECT" :> "project" @@ "STATUS" :> "status" @@ "Project Status" :> "project status"
    @@ "PlannedDays" :> "planneddays" @@ "ActualDays" :> "actualdays" @@ "Variance" :> "variance"
    @@ "OverBudget" :> "overbudget" @@ "ScheduleSlip" :> "scheduleslip"

Lower(x) == IF x \in DOMAIN LowerTab THEN LowerTab[x] ELSE x

\* colmap = {c.lower(): c for c in df.columns}: of two columns that differ
\* only in case the later one stays in the dict.
colmap(df) ==
    [k \in {Lower(df.cols[i]) : i \in DOMAIN df.cols} |->
        LET last == CHOOSE i \in DOMAIN df.cols :
                        /\ Lower(df.cols[i]) = k
                        /\ \A j \in DOMAIN df.cols : Lower(df.cols[j]) = k => j <= i
        IN  df.cols[last]]

\* for c in candidates: if c and c.lower() in colmap: return colmap[c.lower()]
RECURSIVE first_present_from(_, _, _)
first_present_from(cm, candidates, i) ==
    IF i > Len(candidates) THEN None
    ELSE IF candidates[i] # "" /\ Lower(candidates[i]) \in DOMAIN cm
         THEN cm[Lower(candidates[i])]
         ELSE first_present_from(cm, candidates, i + 1)

\* A resolver that also needs the case to agree.
first_present_exact_case(df, candidates) ==
    LET hits == {i \in DOMAIN candidates : HasCol(df, candidates[i])}
    IN  IF hits = {} THEN None
        ELSE candidates[CHOOSE i \in hits : \A j \in hits : i <= j]

first_present(df, candidates) == first_present_from(colmap(df), candidates, 1)

FORM_NAME_CANDS == <<"ProjectName", "Name", "Title", "Project">>
FORM_STATUS_CANDS == <<"Status", "Report Forms Status", "Report Status">>
FORM_OWNER_CANDS == <<"Owner", "Department", "Group", "Report Forms Group", "Report Group">>
FORM_PRIORITY_CANDS == <<"Priority", "Risk", "Severity">>
FORM_BUDGET_CANDS == <<"Budget", "Cost Budget", "Planned Cost", "Total Budget">>
FORM_SPENT_CANDS == <<"Spent", "Actual Cost", "Actuals", "Cost Spent", "Expenditure">>
FORM_ID_CANDS == <<"ProjectID", "Ref", "ID", "Project Ref", "Project">>
FORM_PROGRESS_CANDS == <<"KPI_Progress", "Progress", "Percent Complete", "% Complete", "Completion">>

TASK_ID_CANDS == <<"TaskID", "Ref", "ID">>
TASK_NAME_CANDS == <<"TaskName", "Description", "Title", "Activity">>
TASK_STATUS_CANDS == <<"Status", "Report Status">>
TASK_PROJECT_LINK == <<"ProjectID", "Project", "project", "Ref", "Parent Ref", "Parent">>
TASK_COMPLETE_CANDS == <<"Completion", "% Complete", "Percent Complete", "Progress">>
START_CANDS == <<"StartDate", "Start", "Begin">>
END_CANDS == <<"EndDate", "End", "Finish">>

FormRoles == {"proj_id", "proj_name", "status", "owner", "priority",
              "budget", "spent", "start", "end", "progress"}
TaskRoles == {"task_id", "task_name", "status", "proj_link", "start", "end", "complete"}

FormCands ==
    [proj_id |-> FORM_ID_CANDS, proj_name |-> FORM_NAME_CANDS,
     status |-> FORM_STATUS_CANDS, owner |-> FORM_OWNER_CANDS,
     priority |-> FORM_PRIORITY_CANDS, budget |-> FORM_BUDGET_CANDS,
     spent |-> FORM_SPENT_CANDS, start |-> START_CANDS, end |-> END_CANDS,
     progress |-> FORM_PROGRESS_CANDS]

TaskCands ==
    [task_id |-> TASK_ID_CANDS, task_name |-> TASK_NAME_CANDS,
     status |-> TASK_STATUS_CANDS, proj_link |-> TASK_PROJECT_LINK,
     start |-> START_CANDS, end |-> END_CANDS, complete |-> TASK_COMPLETE_CANDS]

auto_map_forms(df) == [key \in FormRoles |-> first_present(df, FormCands[key])]
auto_map_tasks(df) == [key \in TaskRoles |-> first_present(df, TaskCands[key])]

\* A getter that falls back on the auto-mapped column when the selectbox
\* says None.
fcol_auto_fallback(fm, df, key) ==
    IF HasCol(df, fm[key]) THEN fm[key] ELSE auto_map_forms(df)[key]

\* fcol / tcol: the mapped column if it is a column of the table, else None.
fcol(fm, df, key) == IF HasCol(df, fm[key]) THEN fm[key] ELSE None
tcol(tm, df, key) == IF HasCol(df, tm[key]) THEN tm[key] ELSE None

\* -------------------------------------------------------------------------
\* Derivations (forms_use, tasks_use)
\* -------------------------------------------------------------------------
\* to_numeric_inplace / to_datetime_inplace: only if col is a column of df.
to_numeric_inplace(df, col) ==
    IF col # None /\ HasCol(df, col)
    THEN SetCol(df, col, [i \in DOMAIN df.rows |-> to_numeric(df.rows[i].v[col])])
    ELSE df

to_datetime_inplace(df, col) ==
    IF col # None /\ HasCol(df, col)
    THEN SetCol(df, col, [i \in DOMAIN df.rows |-> to_datetime(df.rows[i].v[col])])
    ELSE df

\* safe_get: the column, or a series of the default (NaN).
safe_get(df, col) ==
    IF col # None /\ HasCol(df, col) THEN Series(df, col)
    ELSE [i \in DOMAIN df.rows |-> NA]

\* spent - budget on two numeric cells; NaN if either is missing.
Minus(a, b) == IF IsNum(a) /\ IsNum(b) THEN FloatCell(a.n - b.n) ELSE NA

\* A flag that also counts a project that has spent exactly its budget.
OverBudgetCell_nonstrict(variance) == BoolCell(IsNum(variance) /\ variance.n >= 0)

\* Variance > 0: False for a missing variance.
OverBudgetCell(variance) == BoolCell(IsNum(variance) /\ variance.n > 0)

\* lines 139-146: Variance and OverBudget from the coerced columns.
WithVariance(df, b, sp) ==
    IF b # None /\ sp # None
    THEN SetCol(SetCol(df, "Variance",
                       [i \in DOMAIN df.rows |-> Minus(df.rows[i].v[sp], df.rows[i].v[b])]),
                "OverBudget",
                [i \in DOMAIN df.rows |->
                    OverBudgetCell(Minus(df.rows[i].v[sp], df.rows[i].v[b]))])
    ELSE SetCol(SetCol(df, "Variance", [i \in DOMAIN df.rows |-> NA]),
                "OverBudget", [i \in DOMAIN df.rows |-> BoolCell(FALSE)])

\* lines 148-150: _progress
WithProgress(df, pr) ==
    SetCol(df, "_progress", [i \in DOMAIN df.rows |-> to_numeric(safe_get(df, pr)[i])])

\* lines 131-150
DeriveForms(df, fm) ==
    WithProgress(
        WithVariance(
            to_numeric_inplace(
                to_numeric_inplace(
                    to_numeric_inplace(df, fcol(fm, df, "budget")),
                    fcol(fm, df, "spent")),
                fcol(fm, df, "progress")),
            fcol(fm, df, "budget"), fcol(fm, df, "spent")),
        fcol(fm, df, "progress"))

\* A day count that includes both the first and the last day.
Days_inclusive(e, s) ==
    IF e.t = "date" /\ s.t = "date" THEN FloatCell(e.n - s.n + 1) ELSE NA

\* (end - start).dt.days on two datetime cells; NaN if either is NaT.
Days(e, s) == IF e.t = "date" /\ s.t = "date" THEN FloatCell(e.n - s.n) ELSE NA

\* A slip test that flags the boundary too.
Slip_inclusive(actual, planned) ==
    BoolCell(IsNum(actual) /\ IsNum(planned) /\ 10 * actual.n >= 11 * planned.n)

\* ActualDays > PlannedDays * 1.1 on two cells: False if either is missing.
\* For whole numbers of absolute value below 50 the float64 product
\* planned * 1.1 lies on the same side of every whole number as 11*planned/10
\* (and equals it when that is whole), so the test is 10*actual > 11*planned.
Slip(actual, planned) ==
    BoolCell(IsNum(actual) /\ IsNum(planned) /\ 10 * actual.n > 11 * planned.n)

\* "X" not in df.columns or df["X"].isna().all()
AbsentOrAllNA(df, col) ==
    ~HasCol(df, col) \/ \A i \in DOMAIN df.rows : isna(df.rows[i].v[col])

\* df["ScheduleSlip"] = df["ActualDays"] > df["PlannedDays"] * 1.1
WithSlip(df) ==
    SetCol(df, "ScheduleSlip",
           [i \in DOMAIN df.rows |->
               Slip(df.rows[i].v["ActualDays"], df.rows[i].v["PlannedDays"])])

\* lines 159-161 (and 321-322): planned = actual when no planned value at all.
PlannedFallback(df) ==
    IF AbsentOrAllNA(df, "PlannedDays")
    THEN SetCol(df, "PlannedDays", Series(df, "ActualDays"))
    ELSE df

\* lines 157-158: ActualDays from the dates unless the table brings its own.
WithActual(df, s, e) ==
    IF AbsentOrAllNA(df, "ActualDays")
    THEN SetCol(df, "ActualDays",
                [i \in DOMAIN df.rows |-> Days(df.rows[i].v[e], df.rows[i].v[s])])
    ELSE df

\* lines 165-167: no dates mapped.
NoDates(df) ==
    SetCol(SetCol(SetCol(df, "ActualDays", [i \in DOMAIN df.rows |-> NA]),
                  "PlannedDays", [i \in DOMAIN df.rows |-> NA]),
           "ScheduleSlip", [i \in DOMAIN df.rows |-> BoolCell(FALSE)])

\* lines 152-167
DeriveTasks(df, tm) ==
    IF tcol(tm, df, "start") # None /\ tcol(tm, df, "end") # None
    THEN WithSlip(PlannedFallback(
             WithActual(to_datetime_inplace(to_datetime_inplace(df, tcol(tm, df, "start")),
                                            tcol(tm, df, "end")),
                        tcol(tm, df, "start"), tcol(tm, df, "end"))))
    ELSE NoDates(df)

\* -------------------------------------------------------------------------
\* Filters
\* -------------------------------------------------------------------------
\* Options computed without dropna(): a missing value is listed as "nan".
Vals_no_dropna(df, col) ==
    IF col = None THEN {}
    ELSE {Str(df.rows[i].v[col]) : i \in DOMAIN df.rows}

\* sorted(df[col].dropna().astype(str).unique()) if col else []: the options
\* (and the default selection) of one sidebar multiselect, as a set.
Vals(df, col) ==
    IF col = None THEN {}
    ELSE {Str(df.rows[i].v[col]) : i \in {j \in DOMAIN df.rows : ~isna(df.rows[j].v[col])}}

\* A filter that lets rows with a missing value through.
FilterIn_keep_missing(df, col, sel) ==
    Mask(df, {i \in DOMAIN df.rows :
                 isna(df.rows[i].v[col]) \/ Str(df.rows[i].v[col]) \in sel})

\* df[df[col].astype(str).isin(sel)]
FilterIn(df, col, sel) ==
    Mask(df, {i \in DOMAIN df.rows : Str(df.rows[i].v[col]) \in sel})

\* One sidebar dimension: applied only if its role is resolved.
FilterDim(df, col, sel) == IF col # None THEN FilterIn(df, col, sel) ELSE df

\* lines 180-186
ApplyFilters(fu, src, fm, ssel, osel, psel) ==
    FilterDim(FilterDim(FilterDim(fu, fcol(fm, src, "status"), ssel),
                        fcol(fm, src, "owner"), osel),
              fcol(fm, src, "priority"), psel)

\* -------------------------------------------------------------------------
\* Drilldown
\* -------------------------------------------------------------------------
\* Python's order of the strings a project selectbox can list.
SortOrder == <<"A1", "B2", "C3", "x">>

SortPos(x) == CHOOSE i \in DOMAIN SortOrder : SortOrder[i] = x

\* sorted(names)[0]: what a selectbox shows before the user touches it.
FirstSorted(names) ==
    IF names = {} THEN None
    ELSE CHOOSE x \in names : \A y \in names : SortPos(x) <= SortPos(y)

\* The option lists of the two join-key selectboxes (lines 284-291).
LeftKeyOptions(fm, src) ==
    <<fcol(fm, src, "proj_id"), fcol(fm, src, "proj_name"), "Ref", "Project", "Name", None>>
RightKeyOptions(tm, src) ==
    <<tcol(tm, src, "proj_link"), "project", "Project", "Ref", None>>

\* filt[filt[name].astype(str) == project_choice].head(1)  (lines 293-305)
LeftRow(fdf, namecol, choice) ==
    IF namecol = None \/ choice = None THEN Frame(fdf.cols, <<>>)
    ELSE LET hits == {i \in DOMAIN fdf.rows : Str(fdf.rows[i].v[namecol]) = choice}
         IN  Mask(fdf, {i \in hits : \A j \in hits : i <= j})

\* The guard of line 307.
CanJoin(fdf, tu, lk, rk, choice) ==
    /\ choice # None /\ lk # None /\ rk # None
    /\ HasCol(fdf, lk) /\ HasCol(tu, rk)

\* A join on the raw cells, not on their string forms.
JoinRows_raw(tu, rk, left_val) ==
    Mask(tu, {i \in DOMAIN tu.rows : tu.rows[i].v[rk] = left_val})

\* tasks_use[tasks_use[right_key].astype(str) == str(left_val)]  (line 309)
JoinRows(tu, rk, left_val) ==
    Mask(tu, {i \in DOMAIN tu.rows : Str(tu.rows[i].v[rk]) = Str(left_val)})

\* The guard of line 314.
HasTimeline(tm, src) ==
    /\ tcol(tm, src, "task_name") # None
    /\ tcol(tm, src, "start") # None
    /\ tcol(tm, src, "end") # None

\* lines 317-318: both duration columns coerced to numbers.
CoerceDurations(pt) ==
    SetCol(SetCol(pt, "PlannedDays",
                  [i \in DOMAIN pt.rows |-> to_numeric(pt.rows[i].v["PlannedDays"])]),
           "ActualDays",
           [i \in DOMAIN pt.rows |-> to_numeric(pt.rows[i].v["ActualDays"])])

\* lines 319-320: ActualDays from the dates if the joined rows have none.
ActualIfNone(pt, s, e) ==
    IF \A i \in DOMAIN pt.rows : isna(pt.rows[i].v["ActualDays"])
    THEN SetCol(pt, "ActualDays",
                [i \in DOMAIN pt.rows |->
                    Days(to_datetime(pt.rows[i].v[e]), to_datetime(pt.rows[i].v[s]))])
    ELSE pt

\* lines 316-323: the second derivation, on the joined rows only.
Rederive(pt, tm, src) ==
    WithSlip(PlannedFallback(
        ActualIfNone(CoerceDurations(pt), tcol(tm, src, "start"), tcol(tm, src, "end"))))

\* lines 307-348: which branch the drilldown takes and the task rows it shows.
DrillView(fdf, tu, tm, src, lk, rk, choice) ==
    IF ~CanJoin(fdf, tu, lk, rk, choice) THEN "caption"
    ELSE IF HasTimeline(tm, src) THEN "timeline" ELSE "info"

\* left_row.iloc[0][left_key]
LeftVal(lrow, lk) == lrow.rows[1].v[lk]

Joined(pt, tm, tsrc) == IF HasTimeline(tm, tsrc) THEN Rederive(pt, tm, tsrc) ELSE pt

Drill(fdf, lrow, tu, tm, tsrc, lk, rk, choice) ==
    IF ~CanJoin(fdf, tu, lk, rk, choice) THEN Frame(tu.cols, <<>>)
    ELSE Joined(JoinRows(tu, rk, LeftVal(lrow, lk)), tm, tsrc)

\* -------------------------------------------------------------------------
\* State
\* -------------------------------------------------------------------------
VARIABLES
    forms, tasks,            \* the loaded tables (load_data, cached)
    fmap, tmap,              \* role -> column after the mapping selectboxes
    status_sel, owner_sel, prio_sel,   \* the sidebar multiselects
    left_key, right_key,     \* the join-key selectboxes
    project_choice,          \* the project selectbox (None: no project)
    forms_use, tasks_use,    \* the derived tables
    filt,                    \* the filtered forms table
    left_row,                \* the chosen project's row (at most one)
    view,                    \* drilldown branch: "caption", "info", "timeline"
    proj_tasks               \* the task rows of the drilldown

vars == <<forms, tasks, fmap, tmap, status_sel, owner_sel, prio_sel, left_key,
          right_key, project_choice, forms_use, tasks_use, filt, left_row,
          view, proj_tasks>>

\* Bounds of the model.
MaxFormsRows == 2
MaxTasksRows == 2

\* _selectbox_with_default before the user touches it: the default if it is
\* one of [None] + options, else None.
selectbox_with_default(options, default) ==
    IF default = None \/ default \in options THEN default ELSE None

\* A widget keeps the user's value over a rerun while its option list is the
\* one it was drawn with; a widget drawn with other options starts afresh.
Kept(value, options, drawn, default) == IF options = drawn THEN value ELSE default

\* The drilldown (lines 284-348) for the filtered table fl.
ScriptDrill(f, t, fm, tm, tu, fl, lk1, rk1, c1) ==
    \E lrow \in {LeftRow(fl, fcol(fm, f, "proj_name"), c1)} :
        /\ left_key' = lk1
        /\ right_key' = rk1
        /\ project_choice' = c1
        /\ left_row' = lrow
        /\ view' = DrillView(fl, tu, tm, t, lk1, rk1, c1)
        /\ proj_tasks' = Drill(fl, lrow, tu, tm, t, lk1, rk1, c1)

\* The filters and what follows them (lines 172-348).
ScriptFilter(f, t, fm, tm, fu, tu, s1, o1, p1, lk, rk, choice, drawn) ==
    \E fl \in {ApplyFilters(fu, f, fm, s1, o1, p1)} :
        /\ status_sel' = s1
        /\ owner_sel' = o1
        /\ prio_sel' = p1
        /\ filt' = fl
        /\ ScriptDrill(f, t, fm, tm, tu, fl,
                       Kept(lk, LeftKeyOptions(fm, f), drawn.left, LeftKeyOptions(fm, f)[1]),
                       Kept(rk, RightKeyOptions(tm, t), drawn.right, RightKeyOptions(tm, t)[1]),
                       Kept(choice, Vals(fl, fcol(fm, f, "proj_name")), drawn.project,
                            FirstSorted(Vals(fl, fcol(fm, f, "proj_name")))))

\* One execution of the script with the tables f, t, the widget values
\* asked for and the option lists the widgets were last drawn with.
Script(f, t, fm, tm, ssel, osel, psel, lk, rk, choice, drawn) ==
    \E fu \in {DeriveForms(f, fm)}, tu \in {DeriveTasks(t, tm)} :
        /\ fmap' = fm
        /\ tmap' = tm
        /\ forms_use' = fu
        /\ tasks_use' = tu
        /\ ScriptFilter(f, t, fm, tm, fu, tu,
                        Kept(ssel, Vals(fu, fcol(fm, f, "status")), drawn.status,
                             Vals(fu, fcol(fm, f, "status"))),
                        Kept(osel, Vals(fu, fcol(fm, f, "owner")), drawn.owner,
                             Vals(fu, fcol(fm, f, "owner"))),
                        Kept(psel, Vals(fu, fcol(fm, f, "priority")), drawn.priority,
                             Vals(fu, fcol(fm, f, "priority"))),
                        lk, rk, choice, drawn)

\* The option lists the widgets on screen were drawn with.
Drawn ==
    [status |-> Vals(forms_use, fcol(fmap, forms, "status")),
     owner |-> Vals(forms_use, fcol(fmap, forms, "owner")),
     priority |-> Vals(forms_use, fcol(fmap, forms, "priority")),
     left |-> LeftKeyOptions(fmap, forms),
     right |-> RightKeyOptions(tmap, tasks),
     project |-> Vals(filt, fcol(fmap, forms, "proj_name"))]

Rerun(fm, tm, ssel, osel, psel, lk, rk, choice) ==
    /\ UNCHANGED <<forms, tasks>>
    /\ \E drawn \in {Drawn} :
           Script(forms, tasks, fm, tm, ssel, osel, psel, lk, rk, choice, drawn)

\* The first execution: every widget at its default.
FirstDrill(f, t, fm, tm, tu, fl, lk1, rk1, c1) ==
    \E lrow \in {LeftRow(fl, fcol(fm, f, "proj_name"), c1)} :
        /\ left_key = lk1
        /\ right_key = rk1
        /\ project_choice = c1
        /\ left_row = lrow
        /\ view = DrillView(fl, tu, tm, t, lk1, rk1, c1)
        /\ proj_tasks = Drill(fl, lrow, tu, tm, t, lk1, rk1, c1)

FirstFilter(f, t, fm, tm, fu, tu, s1, o1, p1) ==
    \E fl \in {ApplyFilters(fu, f, fm, s1, o1, p1)} :
        /\ status_sel = s1
        /\ owner_sel = o1
        /\ prio_sel = p1
        /\ filt = fl
        /\ FirstDrill(f, t, fm, tm, tu, fl, LeftKeyOptions(fm, f)[1],
                      RightKeyOptions(tm, t)[1],
                      FirstSorted(Vals(fl, fcol(fm, f, "proj_name"))))

FirstMapped(f, t, fm, tm) ==
    \E fu \in {DeriveForms(f, fm)}, tu \in {DeriveTasks(t, tm)} :
        /\ fmap = fm
        /\ tmap = tm
        /\ forms_use = fu
        /\ tasks_use = tu
        /\ FirstFilter(f, t, fm, tm, fu, tu,
                       Vals(fu, fcol(fm, f, "status")),
                       Vals(fu, fcol(fm, f, "owner")),
                       Vals(fu, fcol(fm, f, "priority")))

FirstRun(f, t) ==
    /\ forms = f
    /\ tasks = t
    /\ FirstMapped(f, t,
                   [key \in FormRoles |->
                       selectbox_with_default(Columns(f), auto_map_forms(f)[key])],
                   [key \in TaskRoles |->
                       selectbox_with_default(Columns(t), auto_map_tasks(t)[key])])

\* -------------------------------------------------------------------------
\* Interactions
\* -------------------------------------------------------------------------
\* The user picks col (None or a column) in the selectbox "Forms: key".
SetFormsMapping(key, col) ==
    /\ col \in {None} \cup Columns(forms)
    /\ col # fmap[key]
    /\ Rerun([fmap EXCEPT ![key] = col], tmap, status_sel, owner_sel, prio_sel,
             left_key, right_key, project_choice)

\* The user picks col in the selectbox "Tasks: key".
SetTasksMapping(key, col) ==
    /\ col \in {None} \cup Columns(tasks)
    /\ col # tmap[key]
    /\ Rerun(fmap, [tmap EXCEPT ![key] = col], status_sel, owner_sel, prio_sel,
             left_key, right_key, project_choice)

\* The user changes one sidebar multiselect to a subset of its options.
SetStatus(sel) ==
    /\ sel \subseteq Drawn.status
    /\ sel # status_sel
    /\ Rerun(fmap, tmap, sel, owner_sel, prio_sel, left_key, right_key, project_choice)

SetOwner(sel) ==
    /\ sel \subseteq Drawn.owner
    /\ sel # owner_sel
    /\ Rerun(fmap, tmap, status_sel, sel, prio_sel, left_key, right_key, project_choice)

SetPriority(sel) ==
    /\ sel \subseteq Drawn.priority
    /\ sel # prio_sel
    /\ Rerun(fmap, tmap, status_sel, owner_sel, sel, left_key, right_key, project_choice)

\* The user picks one of the join-key options.
SelectLeftKey(k) ==
    /\ \E i \in DOMAIN Drawn.left : Drawn.left[i] = k
    /\ k # left_key
    /\ Rerun(fmap, tmap, status_sel, owner_sel, prio_sel, k, right_key, project_choice)

SelectRightKey(k) ==
    /\ \E i \in DOMAIN Drawn.right : Drawn.right[i] = k
    /\ k # right_key
    /\ Rerun(fmap, tmap, status_sel, owner_sel, prio_sel, left_key, k, project_choice)

\* The user picks a project.
SelectProject(name) ==
    /\ name \in Drawn.project
    /\ name # project_choice
    /\ Rerun(fmap, tmap, status_sel, owner_sel, prio_sel, left_key, right_key, name)

\* -------------------------------------------------------------------------
\* The files: bounded families of CSV contents
\* -------------------------------------------------------------------------
\* One CSV row: the cell texts toks given in the order of cols.
RawRow(cols, toks) ==
    [c \in {cols[i] : i \in DOMAIN cols} |-> toks[CHOOSE i \in DOMAIN cols : cols[i] = c]]

\* Every CSV with header cols and at most max rows, each drawn from rowset.
RawTables(cols, rowset, max) ==
    {[cols |-> cols, rows |-> r] :
        r \in UNION {[1..n -> {RawRow(cols, toks) : toks \in rowset}] : n \in 0..max}}

\* The same CSV without the columns outside keep.
RECURSIVE KeepCols(_, _)
KeepCols(cols, keep) ==
    IF cols = <<>> THEN <<>>
    ELSE (IF Head(cols) \in keep THEN <<Head(cols)>> ELSE <<>>) \o KeepCols(Tail(cols), keep)

Project(raw, keep) ==
    [cols |-> KeepCols(raw.cols, keep),
     rows |-> [i \in DOMAIN raw.rows |-> [c \in keep |-> raw.rows[i][c]]]]

\* Join files: projects keyed by Ref, tasks linked by project and carrying a
\* Ref of their own.
JoinFormsCols == <<"Ref", "Name">>
JoinFormsRows == {<<"7", "A1">>, <<"8", "B2">>, <<"", "C3">>}
JoinTasksCols == <<"project", "Ref", "TaskName", "Start", "End">>
JoinTasksRows ==
    {<<"7", "A1", "x", "2024-01-01", "2024-01-12">>,
     <<"A1", "7", "x", "2024-01-01", "2024-01-13">>,
     <<"", "8", "x", "2024-01-01", "2024-01-20">>}

Init ==
    \E rf \in RawTables(JoinFormsCols, JoinFormsRows, MaxFormsRows),
       rt \in RawTables(JoinTasksCols, JoinTasksRows, MaxTasksRows) :
        \E f \in {read_csv(rf)}, t \in {read_csv(rt)} : FirstRun(f, t)

Next ==
    \/ \E k \in {"Ref", "Name", "Project", None} : SelectLeftKey(k)
    \/ \E k \in {"project", "Project", "Ref", None} : SelectRightKey(k)
    \/ \E name \in {"A1", "B2", "C3"} : SelectProject(name)

Spec == Init /\ [][Next]_vars

\* Header files: tables that differ in their column names only (one row of
\* text cells), with the mapping selectboxes of two roles and the forms
\* join-key selectbox exercised.
XRow(cols) == [cols |-> cols, rows |-> <<[c \in {cols[i] : i \in DOMAIN cols} |-> "x"]>>]

ResolveFormsHeaders ==
    {<<"Ref", "Name", "Status", "Owner", "Priority", "Budget", "Spent">>,
     <<"project", "STATUS", "Status">>,
     <<"Report Status", "Status", "PROJECT", "Project">>,
     <<"Project Status", "ProjectName", "Project Ref", "Actual Cost">>,
     <<"Status", "STATUS", "Name", "Progress">>}
ResolveTasksHeaders ==
    {<<"project", "TaskName", "Start", "End", "Status">>,
     <<"Ref", "Project", "Description", "StartDate", "Finish", "% Complete">>,
     <<"Parent Ref", "ID", "Title", "Begin", "EndDate">>}

InitResolve ==
    \E fh \in ResolveFormsHeaders, th \in ResolveTasksHeaders :
        \E f \in {read_csv(XRow(fh))}, t \in {read_csv(XRow(th))} : FirstRun(f, t)

NextResolve ==
    \/ \E col \in {None} \cup Columns(forms) : SetFormsMapping("status", col)
    \/ \E col \in {None} \cup Columns(tasks) : SetTasksMapping("proj_link", col)
    \/ \E k \in {"Ref", "Project", None} : SelectLeftKey(k)

SpecResolve == InitResolve /\ [][NextResolve]_vars

\* Portfolio files: the sidebar dimensions and the money columns, with and
\* without the Budget and Priority columns; one fixed tasks file.
FormsCols == <<"Name", "Status", "Owner", "Priority", "Budget", "Spent">>
FormsRows ==
    {<<"A1", "Open", "Ann", "High", "1000", "1200">>,
     <<"B2", "Done", "Ann", "", "500", "500">>,
     <<"C3", "", "Ann", "High", "abc", "500">>,
     <<"A1", "Open", "", "High", "", "1000">>}
FormsKeeps ==
    {{"Name", "Status", "Owner", "Priority", "Budget", "Spent"},
     {"Name", "Status", "Owner", "Spent"}}
OneTask ==
    [cols |-> JoinTasksCols,
     rows |-> <<RawRow(JoinTasksCols, <<"A1", "7", "x", "2024-01-01", "2024-01-13">>)>>]

InitForms ==
    \E rf \in RawTables(FormsCols, FormsRows, MaxFormsRows), keep \in FormsKeeps :
        \E f \in {read_csv(Project(rf, keep))}, t \in {read_csv(OneTask)} : FirstRun(f, t)

NextForms ==
    \/ \E sel \in SUBSET {"Open", "Done"} : SetStatus(sel)
    \/ \E sel \in SUBSET {"Ann"} : SetOwner(sel)
    \/ \E sel \in SUBSET {"High"} : SetPriority(sel)
    \/ \E col \in {None, "Budget", "Spent"} : SetFormsMapping("budget", col)
    \/ \E col \in {None, "Priority"} : SetFormsMapping("priority", col)

SpecForms == InitForms /\ [][NextForms]_vars

\* Schedule files: tasks with dates and, in some files, PlannedDays and
\* ActualDays columns of their own; one fixed forms file of two projects.
TasksCols == <<"project", "TaskName", "Start", "End", "PlannedDays", "ActualDays">>
TasksRows ==
    {<<"A1", "x", "2024-01-01", "2024-01-12", "10", "">>,
     <<"A1", "x", "2024-01-01", "2024-01-13", "10", "12">>,
     <<"B2", "x", "2024-01-01", "2024-01-20", "", "">>,
     <<"B2", "x", "TBD", "2024-01-12", "", "11">>}
TasksKeeps ==
    {{"project", "TaskName", "Start", "End", "PlannedDays", "ActualDays"},
     {"project", "TaskName", "Start", "End", "PlannedDays"},
     {"project", "TaskName", "Start", "End", "ActualDays"},
     {"project", "TaskName", "Start", "End"}}
TwoProjects ==
    [cols |-> <<"Project", "Status">>,
     rows |-> <<RawRow(<<"Project", "Status">>, <<"A1", "Open">>),
                RawRow(<<"Project", "Status">>, <<"B2", "Open">>)>>]

InitTasks ==
    \E rt \in RawTables(TasksCols, TasksRows, MaxTasksRows), keep \in TasksKeeps :
        \E f \in {read_csv(TwoProjects)}, t \in {read_csv(Project(rt, keep))} : FirstRun(f, t)

NextTasks ==
    \/ \E name \in {"A1", "B2"} : SelectProject(name)
    \/ \E key \in {"start", "end"}, col \in {None, "Start", "End"} : SetTasksMapping(key, col)
    \/ \E col \in {None, "TaskName"} : SetTasksMapping("task_name", col)

SpecTasks == InitTasks /\ [][NextTasks]_vars

\* -------------------------------------------------------------------------
\* Properties
\* -------------------------------------------------------------------------
\* The position of the first candidate (in list order) that equals some
\* column of df when case is ignored; 0 if there is none.
FirstHit(df, candidates) ==
    LET hits == {i \in DOMAIN candidates :
                    \E j \in DOMAIN df.cols : Lower(df.cols[j]) = Lower(candidates[i])}
    IN  IF hits = {} THEN 0 ELSE CHOOSE i \in hits : \A j \in hits : i <= j

ResolvedAsFirstHit(df, candidates, r) ==
    IF FirstHit(df, candidates) = 0 THEN r = None
    ELSE /\ r \in Columns(df)
         /\ Lower(r) = Lower(candidates[FirstHit(df, candidates)])

\* C9: first_present returns a column of the table that equals, ignoring
\* case and in full, the earliest candidate matching any column, and None
\* exactly when no candidate matches -- for every role of both tables.
C9_FirstPresent ==
    /\ \A key \in FormRoles :
           ResolvedAsFirstHit(forms, FormCands[key], auto_map_forms(forms)[key])
    /\ \A key \in TaskRoles :
           ResolvedAsFirstHit(tasks, TaskCands[key], auto_map_tasks(tasks)[key])

\* A table whose second column wins over its first because its candidate is
\* earlier in the list, whose "Project" is found for a role although PROJECT
\* also matches, and with an unresolved role.
C9_Witness ==
    /\ forms.cols = <<"Report Status", "Status", "PROJECT", "Project">>
    /\ auto_map_forms(forms)["status"] = "Status"
    /\ auto_map_forms(forms)["proj_id"] = "Project"
    /\ auto_map_forms(forms)["budget"] = None
    /\ auto_map_tasks(tasks)["proj_link"] = "project"

\* C8: the column in force for a role (fcol / tcol) is None or a column of
\* the table; it is the selectbox's value whenever that names a column and
\* None otherwise (None included: the role is unresolved, its sidebar filter
\* has no option); and the join reads its two keys only from tables that
\* have them.
C8_ResolvedColumnsExist ==
    /\ \A key \in FormRoles :
           /\ fcol(fmap, forms, key) \in {None} \cup Columns(forms)
           /\ fmap[key] \in Columns(forms) => fcol(fmap, forms, key) = fmap[key]
           /\ fmap[key] \notin Columns(forms) => fcol(fmap, forms, key) = None
    /\ \A key \in TaskRoles :
           /\ tcol(tmap, tasks, key) \in {None} \cup Columns(tasks)
           /\ tmap[key] \in Columns(tasks) => tcol(tmap, tasks, key) = tmap[key]
           /\ tmap[key] \notin Columns(tasks) => tcol(tmap, tasks, key) = None
    /\ fmap["status"] = None => status_sel = {}
    /\ fmap["status"] # None =>
           status_sel = Vals(forms_use, fmap["status"])
    /\ view # "caption" => HasCol(filt, left_key) /\ HasCol(tasks_use, right_key)

\* The status selectbox overridden to None in a table with a Status column,
\* while the forms join key names a column the table does not have.
C8_Witness ==
    /\ auto_map_forms(forms)["status"] # None
    /\ fmap["status"] = None
    /\ left_key = "Project"
    /\ ~HasCol(forms, "Project")
    /\ view = "caption"

\* The index labels of a frame's rows, in row order.
Idx(df) == [k \in DOMAIN df.rows |-> df.rows[k].idx]

\* rows of sub are rows of df, unchanged and in df's order.
IsSubFrameInOrder(sub, df) ==
    /\ \A k \in DOMAIN sub.rows : \E i \in DOMAIN df.rows : df.rows[i] = sub.rows[k]
    /\ \A k, l \in DOMAIN sub.rows : k < l => sub.rows[k].idx < sub.rows[l].idx

\* C6: with both money roles resolved Variance is spent - budget on the
\* parsed numbers (missing if either does not parse) and OverBudget is
\* Variance > 0; with either role unresolved Variance is missing and
\* OverBudget False in every row.  OverBudget is always a boolean.
C6_VarianceOverBudget ==
    \A i \in DOMAIN forms_use.rows :
        LET row == forms_use.rows[i].v
            raw == forms.rows[i].v
            b == fmap["budget"]
            sp == fmap["spent"]
        IN  /\ row["OverBudget"].t = "bool"
            /\ IF b # None /\ sp # None
               THEN IF IsNum(to_numeric(raw[b])) /\ IsNum(to_numeric(raw[sp]))
                    THEN /\ IsNum(row["Variance"])
                         /\ row["Variance"].n = to_numeric(raw[sp]).n - to_numeric(raw[b]).n
                         /\ row["OverBudget"] =
                                BoolCell(to_numeric(raw[sp]).n > to_numeric(raw[b]).n)
                    ELSE isna(row["Variance"]) /\ row["OverBudget"] = BoolCell(FALSE)
               ELSE isna(row["Variance"]) /\ row["OverBudget"] = BoolCell(FALSE)

\* Both roles resolved; one project has spent exactly its budget (variance
\* 0, not over budget) and another has a budget that does not parse.
C6_Witness ==
    /\ fmap["budget"] = "Budget" /\ fmap["spent"] = "Spent"
    /\ \E i \in DOMAIN forms_use.rows :
           /\ forms_use.rows[i].v["Variance"] = FloatCell(0)
           /\ forms_use.rows[i].v["OverBudget"] = BoolCell(FALSE)
    /\ \E i \in DOMAIN forms_use.rows :
           /\ forms.rows[i].v["Budget"] = StrCell("abc")
           /\ isna(forms_use.rows[i].v["Variance"])
           /\ forms_use.rows[i].v["OverBudget"] = BoolCell(FALSE)

\* Whether a row passes one sidebar dimension: its role is unresolved, or the
\* string form of its value is selected.
Passes(row, col, sel) == col = None \/ Str(row.v[col]) \in sel

\* C7: filt is exactly the rows of forms_use that pass every resolved
\* dimension (an unresolved one passes everything), unchanged and in their
\* original order, and the three filters give filt in each of the six orders.
C7_Filter ==
    LET sc == fcol(fmap, forms, "status")
        oc == fcol(fmap, forms, "owner")
        pc == fcol(fmap, forms, "priority")
        S(df) == FilterDim(df, sc, status_sel)
        O(df) == FilterDim(df, oc, owner_sel)
        P(df) == FilterDim(df, pc, prio_sel)
    IN  /\ IsSubFrameInOrder(filt, forms_use)
        /\ \A i \in DOMAIN forms_use.rows :
               (\E k \in DOMAIN filt.rows : filt.rows[k] = forms_use.rows[i])
               <=> /\ Passes(forms_use.rows[i], sc, status_sel)
                   /\ Passes(forms_use.rows[i], oc, owner_sel)
                   /\ Passes(forms_use.rows[i], pc, prio_sel)
        /\ filt = P(O(S(forms_use)))
        /\ filt = O(P(S(forms_use)))
        /\ filt = P(S(O(forms_use)))
        /\ filt = S(P(O(forms_use)))
        /\ filt = O(S(P(forms_use)))
        /\ filt = S(O(P(forms_use)))

\* Priority is unresolved with nothing selected, one status is deselected,
\* and the filter keeps some rows and drops others.
C7_Witness ==
    /\ fcol(fmap, forms, "priority") = None
    /\ prio_sel = {}
    /\ status_sel = {"Done"}
    /\ Vals(forms_use, fcol(fmap, forms, "status")) = {"Open", "Done"}
    /\ Len(filt.rows) = 1
    /\ Len(forms_use.rows) = 2

\* Every sidebar multiselect still holds all of its options.
DefaultSelection ==
    /\ status_sel = Vals(forms_use, fcol(fmap, forms, "status"))
    /\ owner_sel = Vals(forms_use, fcol(fmap, forms, "owner"))
    /\ prio_sel = Vals(forms_use, fcol(fmap, forms, "priority"))

\* C10: under the untouched selection filt is exactly the rows with no
\* missing value in any resolved dimension, so it is the whole table only if
\* no resolved dimension has a missing value.
C10_DefaultFilterDropsMissing ==
    DefaultSelection =>
        /\ \A i \in DOMAIN forms_use.rows :
               (\E k \in DOMAIN filt.rows : filt.rows[k] = forms_use.rows[i])
               <=> \A key \in {"status", "owner", "priority"} :
                       fcol(fmap, forms, key) = None
                       \/ ~isna(forms_use.rows[i].v[fcol(fmap, forms, key)])
        /\ Len(filt.rows) = Len(forms_use.rows)
               <=> \A i \in DOMAIN forms_use.rows :
                       \A key \in {"status", "owner", "priority"} :
                           fcol(fmap, forms, key) = None
                           \/ ~isna(forms_use.rows[i].v[fcol(fmap, forms, key)])

\* Nothing deselected, and a project with no status is missing from filt.
C10_Witness ==
    /\ DefaultSelection
    /\ fcol(fmap, forms, "status") = "Status"
    /\ \E i \in DOMAIN forms_use.rows :
           /\ isna(forms_use.rows[i].v["Status"])
           /\ \A k \in DOMAIN filt.rows : filt.rows[k].idx # forms_use.rows[i].idx
    /\ Len(filt.rows) = 1

\* The row of the loaded tasks table with index label idx.
TaskRow(idx) == tasks.rows[CHOOSE i \in DOMAIN tasks.rows : tasks.rows[i].idx = idx].v

\* end - start in whole days from the loaded cells of one tasks row under the
\* mapped date columns; missing if a role is unresolved or a date does not
\* parse.
DateDiff(raw) ==
    IF tmap["start"] = None \/ tmap["end"] = None THEN NA
    ELSE IF to_datetime(raw[tmap["end"]]).t = "date" /\ to_datetime(raw[tmap["start"]]).t = "date"
         THEN FloatCell(to_datetime(raw[tmap["end"]]).n - to_datetime(raw[tmap["start"]]).n)
         ELSE NA

\* The loaded table has column col with at least one value in it.
Populated(df, col) ==
    HasCol(df, col) /\ \E i \in DOMAIN df.rows : ~isna(df.rows[i].v[col])

\* The loaded cell of column col as a number, missing if there is no such
\* column.
OwnNumber(raw, col) == IF col \in DOMAIN raw THEN to_numeric(raw[col]) ELSE NA

SameNumber(a, b) == (isna(a) /\ isna(b)) \/ (IsNum(a) /\ IsNum(b) /\ a.n = b.n)

\* C4 as stated: every row's ActualDays is the day difference of that row's
\* dates, missing when a date is missing or does not parse.
C4_ActualAlwaysFromDates ==
    \A i \in DOMAIN tasks_use.rows :
        SameNumber(tasks_use.rows[i].v["ActualDays"], DateDiff(tasks.rows[i].v))

\* C4 amended: ActualDays is the day difference of the row's dates (missing
\* when a date is missing or unparsable, or a date role is unresolved),
\* unless both date roles are resolved and the table brings an ActualDays
\* column with at least one value: then every row keeps its own cell.
C4_ActualFromDatesUnlessGiven ==
    \A i \in DOMAIN tasks_use.rows :
        IF tmap["start"] # None /\ tmap["end"] # None /\ Populated(tasks, "ActualDays")
        THEN tasks_use.rows[i].v["ActualDays"] = tasks.rows[i].v["ActualDays"]
        ELSE SameNumber(tasks_use.rows[i].v["ActualDays"], DateDiff(tasks.rows[i].v))

\* A table without ActualDays values: one task lasts 11 days by its dates
\* and another has a start date that does not parse.
C4_Witness ==
    /\ ~Populated(tasks, "ActualDays")
    /\ tmap["start"] = "Start" /\ tmap["end"] = "End"
    /\ \E i \in DOMAIN tasks_use.rows :
           /\ tasks.rows[i].v["Start"] = StrCell("2024-01-01")
           /\ tasks.rows[i].v["End"] = StrCell("2024-01-12")
           /\ IsNum(tasks_use.rows[i].v["ActualDays"])
           /\ tasks_use.rows[i].v["ActualDays"].n = 11
    /\ \E i \in DOMAIN tasks_use.rows :
           /\ tasks.rows[i].v["Start"] = StrCell("TBD")
           /\ isna(tasks_use.rows[i].v["ActualDays"])

\* ScheduleSlip of one derived row is true exactly when both durations are
\* present and 10 * actual > 11 * planned.
SlipAsClaimed(row) ==
    /\ row["ScheduleSlip"].t = "bool"
    /\ row["ScheduleSlip"].n = 1
           <=> /\ IsNum(row["ActualDays"]) /\ IsNum(row["PlannedDays"])
               /\ 10 * row["ActualDays"].n > 11 * row["PlannedDays"].n

\* C5: in the derived tasks table and in the drilldown's task rows,
\* ScheduleSlip is true iff both durations are present and actual exceeds
\* planned * 1.1 strictly; never with a missing duration, not at the boundary.
C5_ScheduleSlip ==
    /\ \A i \in DOMAIN tasks_use.rows : SlipAsClaimed(tasks_use.rows[i].v)
    /\ \A i \in DOMAIN proj_tasks.rows : SlipAsClaimed(proj_tasks.rows[i].v)

\* Planned 10 days: the task of 11 days is not flagged (boundary), the task
\* of 12 days is, and both are in the drilldown.
C5_Witness ==
    /\ view = "timeline"
    /\ \E i \in DOMAIN proj_tasks.rows :
           /\ proj_tasks.rows[i].v["ActualDays"] = FloatCell(11)
           /\ proj_tasks.rows[i].v["PlannedDays"].n = 10
           /\ IsNum(proj_tasks.rows[i].v["PlannedDays"])
           /\ proj_tasks.rows[i].v["ScheduleSlip"] = BoolCell(FALSE)
    /\ \E i \in DOMAIN tasks_use.rows :
           /\ tasks_use.rows[i].v["ActualDays"] = FloatCell(12)
           /\ tasks_use.rows[i].v["PlannedDays"].n = 10
           /\ IsNum(tasks_use.rows[i].v["PlannedDays"])
           /\ tasks_use.rows[i].v["ScheduleSlip"] = BoolCell(TRUE)

\* The planned duration the table-wide policy gives one row: its own
\* PlannedDays cell if the loaded table has a populated PlannedDays column,
\* else its ActualDays.
PlannedByTablePolicy(raw, actual) ==
    IF Populated(tasks, "PlannedDays") THEN OwnNumber(raw, "PlannedDays") ELSE actual

\* C3 as stated: the fallback is decided once for the whole loaded table, for
\* the derived tasks table and for the drilldown's task rows alike.
C3_PlannedDecidedPerTable ==
    /\ \A i \in DOMAIN tasks_use.rows :
           SameNumber(tasks_use.rows[i].v["PlannedDays"],
                      PlannedByTablePolicy(tasks.rows[i].v, tasks_use.rows[i].v["ActualDays"]))
    /\ \A k \in DOMAIN proj_tasks.rows :
           SameNumber(proj_tasks.rows[k].v["PlannedDays"],
                      PlannedByTablePolicy(TaskRow(proj_tasks.rows[k].idx),
                                           proj_tasks.rows[k].v["ActualDays"]))

\* The guard under which the drilldown joins at all.
JoinPossible ==
    /\ project_choice # None /\ left_key # None /\ right_key # None
    /\ HasCol(filt, left_key) /\ HasCol(tasks_use, right_key)

\* The index labels of the derived tasks rows whose cell under rk has the
\* string form of the chosen project's cell under lk; none if a key is None.
PairMatches(lk, rk) ==
    IF lk = None \/ rk = None \/ left_row.rows = <<>> THEN {}
    ELSE {tasks_use.rows[i].idx :
             i \in {j \in DOMAIN tasks_use.rows :
                       Str(tasks_use.rows[j].v[rk]) = Str(left_row.rows[1].v[lk])}}

\* The candidate key pairs of the cascade: the default pair, the id-role
\* columns, the name-role columns.
CascadePairs ==
    <<<<fcol(fmap, forms, "proj_id"), tcol(tmap, tasks, "proj_link")>>,
      <<fcol(fmap, forms, "proj_id"), tcol(tmap, tasks, "task_id")>>,
      <<fcol(fmap, forms, "proj_name"), tcol(tmap, tasks, "task_name")>>>>

CascadeMatches ==
    LET hits == {n \in DOMAIN CascadePairs :
                    PairMatches(CascadePairs[n][1], CascadePairs[n][2]) # {}}
    IN  IF hits = {} THEN {}
        ELSE LET first == CHOOSE n \in hits : \A m \in hits : n <= m
             IN  PairMatches(CascadePairs[first][1], CascadePairs[first][2])

\* C1 as stated: the task rows shown are the matches of the first candidate
\* pair (in priority order) that has any, in table order, and none if every
\* pair is empty.
C1_CascadeOverKeyPairs ==
    /\ {proj_tasks.rows[k].idx : k \in DOMAIN proj_tasks.rows} = CascadeMatches
    /\ \A k, l \in DOMAIN proj_tasks.rows :
           k < l => proj_tasks.rows[k].idx < proj_tasks.rows[l].idx

\* C1 amended: the join uses the one key pair selected in the two join-key
\* selectboxes.  With a project chosen and both keys naming columns of their
\* tables, the task rows shown are exactly the derived tasks rows whose
\* right-key string form equals the string form of the chosen project's
\* left-key value, in table order and with their loaded cells; otherwise
\* (and when nothing matches) there are none: no other pair is tried.
C1_JoinOnSelectedPair ==
    /\ view = "caption" <=> ~JoinPossible
    /\ ~JoinPossible => proj_tasks.rows = <<>>
    /\ JoinPossible =>
           /\ Len(left_row.rows) = 1
           /\ \E i \in DOMAIN filt.rows :
                  /\ left_row.rows[1] = filt.rows[i]
                  /\ Str(filt.rows[i].v[fmap["proj_name"]]) = project_choice
                  /\ \A j \in 1..(i - 1) :
                         Str(filt.rows[j].v[fmap["proj_name"]]) # project_choice
           /\ {proj_tasks.rows[k].idx : k \in DOMAIN proj_tasks.rows}
                  = PairMatches(left_key, right_key)
           /\ \A k, l \in DOMAIN proj_tasks.rows :
                  k < l => proj_tasks.rows[k].idx < proj_tasks.rows[l].idx
           /\ \A k \in DOMAIN proj_tasks.rows : \A i \in DOMAIN tasks_use.rows :
                  tasks_use.rows[i].idx = proj_tasks.rows[k].idx =>
                      \A c \in Columns(tasks) :
                          proj_tasks.rows[k].v[c] = tasks_use.rows[i].v[c]

\* The user has picked Name <-> project; the project's number-typed Ref would
\* match nothing there, its name matches one text cell of a two-row tasks
\* table, and the other row is left out.
C1_Witness ==
    /\ left_key = "Name" /\ right_key = "project"
    /\ view = "timeline"
    /\ project_choice = "A1"
    /\ Len(tasks_use.rows) = 2
    /\ Len(proj_tasks.rows) = 1
    /\ proj_tasks.rows[1].idx = 1
    /\ PairMatches("Ref", "project") = {}

\* C2 as stated: a chosen project whose left-key value is missing is joined
\* with no task row.
C2_MissingKeyNeverMatches ==
    (JoinPossible /\ isna(left_row.rows[1].v[left_key])) => proj_tasks.rows = <<>>

====
